---- MODULE Spec2Model ----
(***************************************************************************)
(* Model of src/python/nemotron_daemon.py: a command-line shim with three  *)
(* modes (check-gpu, download, server).  The server mode loads a model and *)
(* then answers newline-delimited JSON requests read from standard input   *)
(* with newline-delimited JSON responses on standard output.               *)
(*                                                                         *)
(* Standard output is the sequence `stdout` of JSON objects; `cause` is a  *)
(* history variable that records, for each emitted object, the number of   *)
(* the input line being handled when it was printed (0 before any read).   *)
(* `calls` is the history of model.transcribe invocations and `collab` the  *)
(* history of what the external libraries did (returned or raised).        *)
(* `exit` is how the process ended ("0": returned normally, "1":           *)
(* sys.exit(1), "uncaught": an exception escaped) and `ended` why the      *)
(* server run ended ("import", "load", "eof", "break", "read_raises").     *)
(***************************************************************************)
EXTENDS Integers, Sequences, FiniteSets, TLC

VARIABLES mode, pc, stdin, nread, cur, stdout, cause, service, calls, collab,
          exit, ended

vars == <<mode, pc, stdin, nread, cur, stdout, cause, service, calls, collab,
          exit, ended>>

(* ------------------------------ bounds --------------------------------- *)

\* longest input stream fed to the server
MaxLines == 3

(* --------------------------- value universe ---------------------------- *)

\* a key that is not present in a JSON object
Absent == "<absent>"
\* Python None / JSON null
None == "<None>"
\* a JSON value that is neither a string nor null (an array)
ListVal == "<list>"
\* a transcription the model returns that json.dumps cannot serialise
HypObj == "<Hypothesis>"
\* no line is being handled
NoLine == [kind |-> "none", command |-> Absent, file_path |-> Absent, id |-> Absent]

\* files present on disk
ExistingFiles == {"a.wav"}

Modes == {"check-gpu", "download", "server"}

\* an output object: every key the program ever prints, Absent when not printed
NoFields ==
  [type |-> Absent, status |-> Absent, message |-> Absent, id |-> Absent,
   text |-> Absent, file_path |-> Absent, device |-> Absent,
   available |-> Absent, error |-> Absent, model |-> Absent, path |-> Absent]

Obj(kind, cmd, fp, id) == [kind |-> kind, command |-> cmd, file_path |-> fp, id |-> id]

\* the items a standard-input stream is made of.  kind: "blank" (only
\* whitespace), "garbage" (text that is not JSON), "array" (valid JSON, not an
\* object), "object" (a JSON object with the given keys), "undecodable"
\* (bytes the text layer refuses: the read itself raises)
TranscribeLines ==
  { Obj("object", "transcribe", "a.wav", "id1"),
    Obj("object", "transcribe", "a.wav", "id2"),
    Obj("object", "transcribe", "missing.wav", "id2"),
    Obj("object", "transcribe", "missing.wav", Absent),
    Obj("object", "transcribe", Absent, "id1"),
    Obj("object", "transcribe", ListVal, "id1") }

OtherLines ==
  { Obj("blank", Absent, Absent, Absent),
    Obj("garbage", Absent, Absent, Absent),
    Obj("array", Absent, Absent, Absent),
    Obj("undecodable", Absent, Absent, Absent),
    Obj("object", "ping", Absent, "id1"),
    Obj("object", "exit", Absent, Absent),
    Obj("object", "stop", Absent, "id1"),
    Obj("object", Absent, "a.wav", "id2") }

Lines == TranscribeLines \cup OtherLines

Streams == UNION { [1..k -> Lines] : k \in 0..MaxLines }

\* what model.transcribe([file_path]) can do: raise, or return a list
TranscribeReturns == { <<>>, <<"hello", "world">>, <<HypObj>> }

(* ----------------------------- pure helpers ---------------------------- *)

\* line.strip() is empty
IsBlank(line) == line.kind = "blank"

\* json.loads(line): raises JSONDecodeError on text that is not JSON
json_loads(line) ==
  IF line.kind \in {"object", "array"}
  THEN [raised |-> FALSE, val |-> line]
  ELSE [raised |-> TRUE, val |-> NoLine]

\* req.get: raises AttributeError unless req is a dict
HasGet(req) == req.kind = "object"

\* req.get(key): None when the key is missing
req_get(req, key) ==
  LET v == IF key = "command" THEN req.command
           ELSE IF key = "file_path" THEN req.file_path
           ELSE req.id
  IN IF v = Absent THEN None ELSE v

\* os.path.exists(p): TypeError for None or a list, else whether the file is there
os_path_exists(p) ==
  IF p \in {None, ListVal} THEN "raise"
  ELSE IF p \in ExistingFiles THEN "true" ELSE "false"

\* variant: no fallback to "" for an empty list
service_transcribe_none(transcriptions) ==
  IF transcriptions # <<>> THEN transcriptions[1] ELSE None

\* NemotronService.transcribe: first element of the returned list, or ""
service_transcribe(transcriptions) ==
  IF transcriptions # <<>> THEN transcriptions[1] ELSE ""

\* json.dumps raises TypeError on an object it cannot serialise
Serialisable(obj) == obj.text # HypObj

ErrorResp(msg) == [NoFields EXCEPT !.type = "error", !.message = msg]

NotFoundResp(req_id) ==
  [NoFields EXCEPT !.type = "error", !.message = "File not found", !.id = req_id]

ResultResp(text, file_path, req_id) ==
  [NoFields EXCEPT !.type = "result", !.text = text,
                   !.file_path = file_path, !.id = req_id]

\* variant: the pong object has no "type" key
PongResp_untyped == [NoFields EXCEPT !.status = "pong"]

PongResp == [NoFields EXCEPT !.type = "pong"]

ReadyResp(device) ==
  [NoFields EXCEPT !.type = "status", !.status = "ready", !.device = device]

FatalResp(msg) == [NoFields EXCEPT !.type = "fatal", !.message = msg]

\* an entry of `collab`: what an external library did while line n was
\* handled (0: outside the loop), and the list it returned if it returned one
Ev(ev, n, ret) == [ev |-> ev, at |-> n, ret |-> ret]

\* print(json.dumps(obj), flush=True) while handling line number n
Emit(obj, n) ==
  /\ stdout' = Append(stdout, obj)
  /\ cause' = Append(cause, n)

(* -------------------------------- Init --------------------------------- *)

Init ==
  /\ mode \in Modes
  /\ pc = "main"
  /\ stdin \in (IF mode = "server" THEN Streams ELSE {<<>>})
  /\ nread = 0
  /\ cur = NoLine
  /\ stdout = <<>>
  /\ cause = <<>>
  /\ service = [device |-> None, model |-> None]
  /\ calls = <<>>
  /\ collab = <<>>
  /\ exit = "running"
  /\ ended = "no"

(* ------------------------------- __main__ ------------------------------ *)

\* the mode dispatch at the bottom of the file
Main ==
  /\ pc = "main"
  /\ pc' = (IF mode = "check-gpu" THEN "check_gpu"
            ELSE IF mode = "download" THEN "download" ELSE "server_import")
  /\ UNCHANGED <<mode, stdin, nread, cur, stdout, cause, service, calls, collab, exit, ended>>

(* ------------------------------ check_gpu ------------------------------ *)

\* what torch can do during the probe
GpuOutcomes ==
  {"no_torch", "import_raises", "probe_raises", "unavailable", "available", "name_raises"}

GpuErrorOutcomes == {"no_torch", "import_raises", "probe_raises", "name_raises"}

\* variant: only ImportError is caught
check_gpu_importonly(o) ==
  IF o = "no_torch"
  THEN [out |-> <<[NoFields EXCEPT !.available = "false", !.error = "torch not installed"]>>,
        exit |-> "0"]
  ELSE IF o \in {"import_raises", "probe_raises", "name_raises"}
  THEN [out |-> <<>>, exit |-> "uncaught"]
  ELSE IF o = "available"
  THEN [out |-> <<[NoFields EXCEPT !.available = "true", !.device = "GPU0"]>>, exit |-> "0"]
  ELSE [out |-> <<[NoFields EXCEPT !.available = "false", !.device = None]>>, exit |-> "0"]

\* the lines check_gpu prints and how it ends, for each collaborator outcome
check_gpu(o) ==
  IF o = "no_torch"
  THEN [out |-> <<[NoFields EXCEPT !.available = "false", !.error = "torch not installed"]>>,
        exit |-> "0"]
  ELSE IF o \in {"import_raises", "probe_raises", "name_raises"}
  THEN [out |-> <<[NoFields EXCEPT !.available = "false", !.error = o]>>, exit |-> "0"]
  ELSE IF o = "available"
  THEN [out |-> <<[NoFields EXCEPT !.available = "true", !.device = "GPU0"]>>, exit |-> "0"]
  ELSE [out |-> <<[NoFields EXCEPT !.available = "false", !.device = None]>>, exit |-> "0"]

CheckGpu ==
  /\ pc = "check_gpu"
  /\ \E o \in GpuOutcomes :
       LET r == check_gpu(o) IN
       /\ stdout' = stdout \o r.out
       /\ cause' = cause \o [i \in 1..Len(r.out) |-> 0]
       /\ exit' = r.exit
       /\ collab' = Append(collab, Ev(o, 0, <<>>))
  /\ pc' = "done"
  /\ UNCHANGED <<mode, stdin, nread, cur, service, calls, ended>>

(* ---------------------------- download_model --------------------------- *)

ModelName == "nvidia/nemotron-speech-streaming-en-0.6b"

\* the import of snapshot_download and the "starting" line
download_begin(o) ==
  IF o = "import_ok"
  THEN [out |-> [NoFields EXCEPT !.status = "starting", !.model = ModelName],
        next |-> "fetching"]
  ELSE [out |-> [NoFields EXCEPT !.status = "error", !.message = o], next |-> "done"]

\* variant: "complete" is printed before the fetch is known to have worked
download_fetch_early(o) ==
  [NoFields EXCEPT !.status = "complete", !.path = "/cache/model"]

\* snapshot_download and the terminal line
download_fetch(o) ==
  IF o = "fetch_ok"
  THEN [NoFields EXCEPT !.status = "complete", !.path = "/cache/model"]
  ELSE [NoFields EXCEPT !.status = "error", !.message = o]

DownloadBegin ==
  /\ pc = "download"
  /\ \E o \in {"import_ok", "import_raises"} :
       LET r == download_begin(o) IN
       /\ Emit(r.out, 0)
       /\ pc' = r.next
       /\ exit' = (IF r.next = "done" THEN "0" ELSE exit)
       /\ collab' = Append(collab, Ev(o, 0, <<>>))
  /\ UNCHANGED <<mode, stdin, nread, cur, service, calls, ended>>

DownloadFetch ==
  /\ pc = "fetching"
  /\ \E o \in {"fetch_ok", "fetch_raises"} :
       /\ Emit(download_fetch(o), 0)
       /\ collab' = Append(collab, Ev(o, 0, <<>>))
  /\ pc' = "done"
  /\ exit' = "0"
  /\ UNCHANGED <<mode, stdin, nread, cur, service, calls, ended>>

(* ------------------------------ run_server ----------------------------- *)

\* import torch / nemo, outside the outer try: on ImportError print an error
\* and sys.exit(1); the import of a broken installation can also raise
\* something else (OSError for a missing shared library), which no handler
\* here catches
ServerImport ==
  /\ pc = "server_import"
  /\ \/ /\ pc' = "service_init"
        /\ collab' = Append(collab, Ev("import_ok", 0, <<>>))
        /\ UNCHANGED <<stdout, cause, exit, ended>>
     \/ /\ Emit(ErrorResp("NeMo/Torch not installed"), 0)
        /\ collab' = Append(collab, Ev("no_torch", 0, <<>>))
        /\ pc' = "done"
        /\ exit' = "1"
        /\ ended' = "import"
     \/ /\ collab' = Append(collab, Ev("import_raises", 0, <<>>))
        /\ pc' = "done"
        /\ exit' = "uncaught"
        /\ ended' = "import"
        /\ UNCHANGED <<stdout, cause>>
  /\ UNCHANGED <<mode, stdin, nread, cur, service, calls>>

\* NemotronService(): pick the device, load the model; a raise is fatal
ServiceInit ==
  /\ pc = "service_init"
  /\ \E device \in {"cuda", "cpu"} :
       \/ /\ service' = [device |-> device, model |-> "loaded"]
          /\ collab' = Append(collab, Ev("load_ok", 0, <<>>))
          /\ pc' = "announce"
          /\ UNCHANGED <<stdout, cause, exit, ended>>
       \/ /\ Emit(FatalResp("load_raises"), 0)
          /\ collab' = Append(collab, Ev("load_raises", 0, <<>>))
          /\ pc' = "done"
          /\ exit' = "0"
          /\ ended' = "load"
          /\ UNCHANGED service
  /\ UNCHANGED <<mode, stdin, nread, cur, calls>>

\* variant: the loop is entered without announcing readiness
Announce_deferred ==
  /\ pc = "announce"
  /\ pc' = "read"
  /\ UNCHANGED <<mode, stdin, nread, cur, stdout, cause, service, calls, collab, exit, ended>>

\* the "ready" status line
Announce ==
  /\ pc = "announce"
  /\ Emit(ReadyResp(service.device), 0)
  /\ pc' = "read"
  /\ UNCHANGED <<mode, stdin, nread, cur, service, calls, collab, exit, ended>>

\* variant: the next line is taken while the model call is still running
ReadLine_overlap ==
  /\ pc \in {"read", "transcribing"}
  /\ IF nread = Len(stdin)
     THEN /\ pc' = "done"
          /\ exit' = "0"
          /\ ended' = "eof"
          /\ UNCHANGED <<nread, cur, stdout, cause>>
     ELSE IF stdin[nread + 1].kind = "undecodable"
     THEN /\ nread' = nread + 1
          /\ Emit(FatalResp("UnicodeDecodeError"), nread + 1)
          /\ pc' = "done"
          /\ exit' = "0"
          /\ ended' = "read_raises"
          /\ UNCHANGED cur
     ELSE /\ nread' = nread + 1
          /\ cur' = stdin[nread + 1]
          /\ pc' = "handle"
          /\ UNCHANGED <<stdout, cause, exit, ended>>
  /\ UNCHANGED <<mode, stdin, service, calls, collab>>

\* variant: end of input is reported on stdout before the loop is left
ReadLine_eof_report ==
  /\ pc = "read"
  /\ IF nread = Len(stdin)
     THEN /\ pc' = "done"
          /\ exit' = "0"
          /\ ended' = "eof"
          /\ Emit(ErrorResp("EOF"), nread)
          /\ UNCHANGED <<nread, cur>>
     ELSE IF stdin[nread + 1].kind = "undecodable"
     THEN /\ nread' = nread + 1
          /\ Emit(FatalResp("UnicodeDecodeError"), nread + 1)
          /\ pc' = "done"
          /\ exit' = "0"
          /\ ended' = "read_raises"
          /\ UNCHANGED cur
     ELSE /\ nread' = nread + 1
          /\ cur' = stdin[nread + 1]
          /\ pc' = "handle"
          /\ UNCHANGED <<stdout, cause, exit, ended>>
  /\ UNCHANGED <<mode, stdin, service, calls, collab>>

\* for line in sys.stdin: end of input ends the loop; bytes the text layer
\* cannot decode raise out of the loop into the outer handler
ReadLine ==
  /\ pc = "read"
  /\ IF nread = Len(stdin)
     THEN /\ pc' = "done"
          /\ exit' = "0"
          /\ ended' = "eof"
          /\ UNCHANGED <<nread, cur, stdout, cause>>
     ELSE IF stdin[nread + 1].kind = "undecodable"
     THEN /\ nread' = nread + 1
          /\ Emit(FatalResp("UnicodeDecodeError"), nread + 1)
          /\ pc' = "done"
          /\ exit' = "0"
          /\ ended' = "read_raises"
          /\ UNCHANGED cur
     ELSE /\ nread' = nread + 1
          /\ cur' = stdin[nread + 1]
          /\ pc' = "handle"
          /\ UNCHANGED <<stdout, cause, exit, ended>>
  /\ UNCHANGED <<mode, stdin, service, calls, collab>>

\* What one pass through the loop body does, up to the model call: the lines
\* it prints (`out`), where control goes (`next`: "read" for the next
\* iteration, "transcribing" for the blocking model call, "done" after the
\* loop) and why the run ended if it did (`ended`).

\* variant: no blank check, the empty text goes to json.loads
on_blank_parsed ==
  [out |-> <<ErrorResp("JSONDecodeError")>>, next |-> "read", ended |-> "no"]

\* if not line.strip(): continue
on_blank == [out |-> <<>>, next |-> "read", ended |-> "no"]

\* variant: the error is printed but the loop is left afterwards
on_exception_break(msg) ==
  [out |-> <<ErrorResp(msg)>>, next |-> "done", ended |-> "break"]

\* variant: no inner try, the exception reaches the outer handler
on_exception_fatal(msg) ==
  [out |-> <<FatalResp(msg)>>, next |-> "done", ended |-> "read_raises"]

\* variant: the per-line report is labelled "fatal"
on_exception_mislabel(msg) ==
  [out |-> <<FatalResp(msg)>>, next |-> "read", ended |-> "no"]

\* except Exception as e: print an error object, then the next iteration
on_exception(msg) == [out |-> <<ErrorResp(msg)>>, next |-> "read", ended |-> "no"]

\* variant: the `continue` after the error is missing
on_missing_file_nocontinue(req_id) ==
  [out |-> <<NotFoundResp(req_id)>>, next |-> "transcribing", ended |-> "no"]

\* the file is not there: print an error object with the id, continue
on_missing_file(req_id) ==
  [out |-> <<NotFoundResp(req_id)>>, next |-> "read", ended |-> "no"]

\* the file is there: call service.transcribe
on_existing_file == [out |-> <<>>, next |-> "transcribing", ended |-> "no"]

\* variant: ping is accepted but not answered
on_ping_silent == [out |-> <<>>, next |-> "read", ended |-> "no"]

\* command == "ping"
on_ping == [out |-> <<PongResp>>, next |-> "read", ended |-> "no"]

\* variant: `continue` instead of `break`
on_exit_continue == [out |-> <<>>, next |-> "read", ended |-> "no"]

\* command == "exit": break
on_exit == [out |-> <<>>, next |-> "done", ended |-> "break"]

\* variant: an else branch that reports the unknown command
on_other_command_err ==
  [out |-> <<ErrorResp("unknown command")>>, next |-> "read", ended |-> "no"]

\* no branch of the if/elif chain matches
on_other_command == [out |-> <<>>, next |-> "read", ended |-> "no"]

\* the transcribe branch
on_transcribe(file_path, req_id) ==
  IF os_path_exists(file_path) = "raise" THEN on_exception("TypeError")
  ELSE IF os_path_exists(file_path) = "false" THEN on_missing_file(req_id)
  ELSE on_existing_file

handle(line) ==
  IF IsBlank(line) THEN on_blank
  ELSE IF json_loads(line).raised THEN on_exception("JSONDecodeError")
  ELSE IF ~HasGet(json_loads(line).val) THEN on_exception("AttributeError")
  ELSE
    LET req == json_loads(line).val
        command == req_get(req, "command")
    IN IF command = "transcribe"
       THEN on_transcribe(req_get(req, "file_path"), req_get(req, "id"))
       ELSE IF command = "ping" THEN on_ping
       ELSE IF command = "exit" THEN on_exit
       ELSE on_other_command

HandleLine ==
  /\ pc = "handle"
  /\ LET r == handle(cur) IN
     /\ stdout' = stdout \o r.out
     /\ cause' = cause \o [i \in 1..Len(r.out) |-> nread]
     /\ pc' = r.next
     /\ calls' = (IF r.next = "transcribing" THEN Append(calls, nread) ELSE calls)
     /\ cur' = (IF r.next = "transcribing" THEN cur ELSE NoLine)
     /\ exit' = (IF r.next = "done" THEN "0" ELSE exit)
     /\ ended' = r.ended
  /\ UNCHANGED <<mode, stdin, nread, service, collab>>

\* the rest of the transcribe branch, once model.transcribe has raised or
\* returned the list `ret`: print the result object; a raise from the model or
\* from json.dumps lands in the except clause
transcribe_finish(line, raised, ret) ==
  LET text == service_transcribe(ret)
      obj == ResultResp(text, req_get(line, "file_path"), req_get(line, "id"))
  IN IF raised THEN on_exception("RuntimeError")
     ELSE IF Serialisable(obj) THEN [out |-> <<obj>>, next |-> "read", ended |-> "no"]
     ELSE on_exception("TypeError")

\* variant: a raising model call makes the service fall back to the CPU
TranscribeReturn_cpu_fallback ==
  /\ pc = "transcribing"
  /\ \E raised \in BOOLEAN :
       \E ret \in (IF raised THEN {<<>>} ELSE TranscribeReturns) :
         LET r == transcribe_finish(cur, raised, ret) IN
         /\ stdout' = stdout \o r.out
         /\ cause' = cause \o [i \in 1..Len(r.out) |-> nread]
         /\ pc' = r.next
         /\ exit' = (IF r.next = "done" THEN "0" ELSE exit)
         /\ ended' = r.ended
         /\ service' = (IF raised THEN [service EXCEPT !.device = "cpu"] ELSE service)
         /\ collab' = Append(collab,
              Ev(IF raised THEN "transcribe_raises" ELSE "transcribe_returns", nread, ret))
  /\ cur' = NoLine
  /\ UNCHANGED <<mode, stdin, nread, calls>>

\* service.transcribe(file_path) returns or raises, and the outcome is printed
TranscribeReturn ==
  /\ pc = "transcribing"
  /\ \E raised \in BOOLEAN :
       \E ret \in (IF raised THEN {<<>>} ELSE TranscribeReturns) :
         LET r == transcribe_finish(cur, raised, ret) IN
         /\ stdout' = stdout \o r.out
         /\ cause' = cause \o [i \in 1..Len(r.out) |-> nread]
         /\ pc' = r.next
         /\ exit' = (IF r.next = "done" THEN "0" ELSE exit)
         /\ ended' = r.ended
         /\ collab' = Append(collab,
              Ev(IF raised THEN "transcribe_raises" ELSE "transcribe_returns", nread, ret))
  /\ cur' = NoLine
  /\ UNCHANGED <<mode, stdin, nread, service, calls>>

Next ==
  \/ Main
  \/ CheckGpu
  \/ DownloadBegin
  \/ DownloadFetch
  \/ ServerImport
  \/ ServiceInit
  \/ Announce
  \/ ReadLine
  \/ HandleLine
  \/ TranscribeReturn

Spec == Init /\ [][Next]_vars

\* the process is single-threaded and every call it makes returns or raises:
\* a step that can be taken is taken
FairSpec == Spec /\ WF_vars(Next)

TypeOK ==
  /\ mode \in Modes
  /\ pc \in {"main", "check_gpu", "download", "fetching", "server_import",
             "service_init", "announce", "read", "handle", "transcribing", "done"}
  /\ nread \in 0..Len(stdin)
  /\ Len(cause) = Len(stdout)
  /\ exit \in {"running", "0", "1", "uncaught"}
  /\ ended \in {"no", "import", "load", "eof", "break", "read_raises"}

(* ----------------------------- vocabulary ------------------------------ *)

\* positions in stdout of the lines printed while input line i was handled
RespsFor(i) == { j \in 1..Len(stdout) : cause[j] = i }

\* input line i has been read and its handling is over
Finished(i) == i < nread \/ (i = nread /\ pc \in {"read", "done"})

\* after line i the loop went back to read: if the run is over with i the
\* last line taken, it is over because the input ended
LoopGoesOn(i) == (i = nread /\ pc = "done") => ended = "eof"

Range(f) == { f[k] : k \in DOMAIN f }

IsRequest(l, cmd) == l.kind = "object" /\ l.command = cmd

\* a transcribe request naming a file that is not there
IsMissingFileReq(l) ==
  IsRequest(l, "transcribe") /\ os_path_exists(req_get(l, "file_path")) = "false"

\* exactly one line was printed for input line i, and it has type t
OneRespOfType(i, t) ==
  /\ Cardinality(RespsFor(i)) = 1
  /\ \A j \in RespsFor(i) : stdout[j].type = t

(* -------------------------------- C1 ----------------------------------- *)

\* C1: a non-blank line that is not valid JSON, at any position of the input,
\* gets exactly one response, of type "error", and the loop goes on to read
\* the next line.
C1_MalformedJsonReported ==
  \A i \in 1..nread :
    (stdin[i].kind = "garbage" /\ Finished(i))
      => (OneRespOfType(i, "error") /\ LoopGoesOn(i))

\* a malformed second line was answered and the third line was then answered too
C1_Witness ==
  /\ nread = 3
  /\ stdin[2].kind = "garbage"
  /\ OneRespOfType(2, "error")
  /\ RespsFor(3) # {}

(* -------------------------------- C2 ----------------------------------- *)

\* C2: a transcribe request whose file does not exist gets exactly one
\* response, of type "error", with the request's id; the model is not called
\* for it; the loop goes on.
C2_MissingFileReported ==
  \A i \in 1..nread :
    (IsMissingFileReq(stdin[i]) /\ Finished(i))
      => /\ OneRespOfType(i, "error")
         /\ \A j \in RespsFor(i) : stdout[j].id = req_get(stdin[i], "id")
         /\ i \notin Range(calls)
         /\ LoopGoesOn(i)

\* a request for a missing file with id "id2" was answered, and so was the
\* line after it
C2_Witness ==
  /\ nread >= 2
  /\ IsMissingFileReq(stdin[1])
  /\ stdin[1].id = "id2"
  /\ \E j \in RespsFor(1) : stdout[j].id = "id2"
  /\ RespsFor(2) # {}

(* -------------------------------- C3 ----------------------------------- *)

\* C3: a transcribe request without a file_path key gets an error response
\* that carries the request's id.
C3_MissingFieldCarriesId ==
  \A i \in 1..nread :
    (IsRequest(stdin[i], "transcribe") /\ stdin[i].file_path = Absent /\ Finished(i))
      => \E j \in RespsFor(i) :
           stdout[j].type = "error" /\ stdout[j].id = req_get(stdin[i], "id")

(* -------------------------------- C4 ----------------------------------- *)

\* an exit command has been processed
ExitProcessed == \E i \in 1..nread : IsRequest(stdin[i], "exit") /\ Finished(i)

\* C4: once an exit command has been processed the loop is over: no later
\* line is read and nothing more is printed, whatever input is left.
C4_ExitTerminates ==
  /\ [](ExitProcessed => (pc = "done" /\ exit = "0" /\ IsRequest(stdin[nread], "exit")))
  /\ [][ExitProcessed => (nread' = nread /\ stdout' = stdout)]_vars

\* exit was the second of three lines: the third is never taken
C4_Witness ==
  /\ ExitProcessed
  /\ nread = 2
  /\ Len(stdin) = 3
  /\ RespsFor(1) # {}

(* -------------------------------- C5 ----------------------------------- *)

\* C5: every ping that has been processed has exactly one response, of type
\* "pong", and it is there before the next line is read, whatever came before.
C5_PingPong ==
  \A i \in 1..nread :
    (IsRequest(stdin[i], "ping") /\ Finished(i)) => OneRespOfType(i, "pong")

\* a ping after a failed request, answered, with the next line not yet read
C5_Witness ==
  /\ nread = 2
  /\ pc = "read"
  /\ stdin[1].kind = "garbage"
  /\ IsRequest(stdin[2], "ping")
  /\ OneRespOfType(2, "pong")
  /\ Len(stdin) = 3

(* -------------------------------- C6 ----------------------------------- *)

\* C6 as stated: every line read has exactly one response line.
C6_OneResponsePerLine ==
  \A i \in 1..nread : Finished(i) => Cardinality(RespsFor(i)) = 1

\* a line the loop passes over without printing: blank, exit, or an object
\* whose command is neither transcribe nor ping
IsSilent(l) ==
  \/ l.kind = "blank"
  \/ (l.kind = "object" /\ l.command \notin {"transcribe", "ping"})

\* C6 (amended): every line read has at most one response line: none for a
\* blank line, an exit command and an object with an absent or unknown
\* command, exactly one for every other line.
C6_AtMostOneResponsePerLine ==
  \A i \in 1..nread :
    Finished(i) =>
      Cardinality(RespsFor(i)) = (IF IsSilent(stdin[i]) THEN 0 ELSE 1)

\* an unknown command passed over in silence between two answered lines
C6_Witness ==
  /\ nread = 3
  /\ Finished(3)
  /\ IsRequest(stdin[2], "stop")
  /\ RespsFor(2) = {}
  /\ Cardinality(RespsFor(1)) = 1
  /\ Cardinality(RespsFor(3)) = 1

(* -------------------------------- C7 ----------------------------------- *)

\* the model call made for line i raised, or returned what json.dumps rejects
TranscriptionFailed(i) ==
  \E k \in 1..Len(collab) :
    /\ collab[k].at = i
    /\ \/ collab[k].ev = "transcribe_raises"
       \/ (collab[k].ev = "transcribe_returns"
             /\ service_transcribe(collab[k].ret) = HypObj)

\* handling line i raised an exception inside the loop body
Raised(i) ==
  \/ stdin[i].kind \in {"garbage", "array"}
  \/ (IsRequest(stdin[i], "transcribe")
        /\ os_path_exists(req_get(stdin[i], "file_path")) = "raise")
  \/ TranscriptionFailed(i)

\* C7: an exception raised while one line is handled is reported as one
\* response of type "error" and the loop goes on; the loop is left only on an
\* exit command, at end of input, or when the read itself fails.
C7_PerLineFailureContained ==
  /\ \A i \in 1..nread :
       (Raised(i) /\ Finished(i)) => (OneRespOfType(i, "error") /\ LoopGoesOn(i))
  /\ (mode = "server" /\ pc = "done" /\ nread < Len(stdin) /\ nread > 0)
       => (IsRequest(stdin[nread], "exit") \/ stdin[nread].kind = "undecodable")

\* three failures in a row (not an object, a raising model call, a bad
\* file_path), each answered, and the loop still reading
C7_Witness ==
  /\ nread = 3
  /\ pc = "read"
  /\ stdin[1].kind = "array"
  /\ \E k \in 1..Len(collab) : collab[k].at = 2 /\ collab[k].ev = "transcribe_raises"
  /\ stdin[3].file_path = ListVal
  /\ \A i \in 1..3 : OneRespOfType(i, "error")

(* -------------------------------- C8 ----------------------------------- *)

\* model calls started and not yet over
CallsInFlight ==
  Len(calls) - Cardinality({ k \in 1..Len(collab) :
                               collab[k].ev \in {"transcribe_raises", "transcribe_returns"} })

\* C8: a line is read only when no request is being processed; whatever is
\* printed belongs to the line read last; at most one model call is in flight;
\* responses are in the order of the lines that caused them.
C8_StrictlySynchronous ==
  /\ [](/\ CallsInFlight = (IF pc = "transcribing" THEN 1 ELSE 0)
        /\ \A j \in 1..Len(cause) : \A k \in 1..Len(cause) : j < k => cause[j] <= cause[k]
        /\ \A j \in 1..Len(cause) : cause[j] <= nread
        /\ (pc \in {"read", "done"} <=> cur = NoLine) \/ mode # "server" \/ nread = 0)
  /\ [][/\ (nread' # nread =>
              (nread' = nread + 1 /\ pc = "read" /\ cur = NoLine /\ CallsInFlight = 0))
        /\ (stdout' # stdout =>
              (/\ Len(stdout') > Len(stdout)
               /\ SubSeq(stdout', 1, Len(stdout)) = stdout
               /\ \A j \in (Len(stdout) + 1)..Len(stdout') : cause'[j] = nread'))]_vars

\* three requests, the second one a model call, answered in order
C8_Witness ==
  /\ nread = 3
  /\ pc = "read"
  /\ cause = <<0, 1, 2, 3>>
  /\ stdout[3].type = "result"
  /\ stdout[2].type = "pong"
  /\ stdout[4].type = "error"

(* -------------------------------- C9 ----------------------------------- *)

\* C9: check-gpu always ends normally with exactly one object printed, which
\* has an "available" field; on an error path "available" is false and an
\* "error" field is there.
C9_ProbeNeverFails ==
  mode = "check-gpu" =>
    /\ exit \in {"running", "0"}
    /\ (pc # "done" => (stdout = <<>> /\ exit = "running"))
    /\ (pc = "done" =>
          /\ exit = "0"
          /\ Len(stdout) = 1
          /\ stdout[1].available \in {"true", "false"}
          /\ (collab[1].ev \in GpuErrorOutcomes =>
                (stdout[1].available = "false" /\ stdout[1].error # Absent))
          /\ (collab[1].ev \notin GpuErrorOutcomes => stdout[1].error = Absent))

\* the accelerator is reported present but asking its name raised
C9_Witness ==
  /\ mode = "check-gpu"
  /\ pc = "done"
  /\ collab[1].ev = "name_raises"
  /\ stdout[1].error = "name_raises"

(* -------------------------------- C10 ---------------------------------- *)

Statuses == [j \in 1..Len(stdout) |-> stdout[j].status]

\* C10 as stated: a finished download run printed "starting" and then one
\* terminal line; no exception escaped.
C10_StartingThenTerminal ==
  (mode = "download" /\ pc = "done") =>
    /\ exit = "0"
    /\ Len(stdout) = 2
    /\ Statuses[1] = "starting"
    /\ Statuses[2] \in {"complete", "error"}

\* C10 (amended): a finished download run printed exactly one terminal line,
\* last: "complete" if the fetch returned, "error" if the fetch or the import
\* of the fetch routine raised; "starting" comes before it exactly when the
\* import succeeded, and nothing is printed when it failed except the error;
\* no exception escapes.
C10_TerminalLineOnce ==
  mode = "download" =>
    /\ exit \in {"running", "0"}
    /\ (pc = "fetching" => Statuses = <<"starting">>)
    /\ (pc = "done" =>
          /\ exit = "0"
          /\ \/ (collab[1].ev = "import_raises" /\ Statuses = <<"error">>)
             \/ (/\ collab[1].ev = "import_ok"
                 /\ collab[2].ev = "fetch_ok"
                 /\ Statuses = <<"starting", "complete">>)
             \/ (/\ collab[1].ev = "import_ok"
                 /\ collab[2].ev = "fetch_raises"
                 /\ Statuses = <<"starting", "error">>))

\* the fetch raised after "starting" was printed
C10_Witness ==
  /\ mode = "download"
  /\ pc = "done"
  /\ Statuses = <<"starting", "error">>

(* -------------------------------- C11 ---------------------------------- *)

\* the collaborator event ev has happened
Happened(ev) == \E k \in 1..Len(collab) : collab[k].ev = ev

\* positions of the "ready" status line in stdout
ReadyLines == { j \in 1..Len(stdout) : stdout[j].status = "ready" }

\* C11: in server mode, once the model load has completed the "ready" status
\* is printed as the first line, exactly once, before any line is read; it is
\* never printed unless the load has completed.
C11_ReadyFirstOnce ==
  mode = "server" =>
    /\ (ReadyLines # {} => (Happened("load_ok") /\ service.model = "loaded"))
    /\ ReadyLines \subseteq {1}
    /\ (Happened("load_ok") =>
          IF pc = "announce" THEN stdout = <<>> /\ nread = 0
          ELSE ReadyLines = {1} /\ stdout[1] = ReadyResp(service.device))
    /\ (nread > 0 => ReadyLines = {1})

\* ready was printed, then two lines were read and answered
C11_Witness ==
  /\ mode = "server"
  /\ nread = 2
  /\ Len(stdout) = 3
  /\ ReadyLines = {1}
  /\ stdout[1].device = "cuda"

(* -------------------------------- C12 ---------------------------------- *)

\* the import of the inference libraries failed, whatever it raised
ImportFailed == Happened("no_torch") \/ Happened("import_raises")

\* C12: after a startup failure exactly one report line has been printed
\* (type "error" if the import failed, "fatal" if the load raised), no "ready",
\* and no line has been read or answered.
C12_StartupFailureReported ==
  (mode = "server" /\ pc = "done" /\ (ImportFailed \/ Happened("load_raises"))) =>
    /\ Len(stdout) = 1
    /\ stdout[1].type = (IF ImportFailed THEN "error" ELSE "fatal")
    /\ ReadyLines = {}
    /\ nread = 0
    /\ calls = <<>>

(* -------------------------------- C13 ---------------------------------- *)

ResponseTypes == {"status", "result", "error", "fatal", "pong"}

\* C13: every line the server has printed has a "type" that is one of
\* status, result, error, fatal, pong.
C13_TypesClosed ==
  mode = "server" => \A j \in 1..Len(stdout) : stdout[j].type \in ResponseTypes

\* status, pong, result and fatal lines in one run
C13_Witness ==
  /\ mode = "server"
  /\ Len(stdout) = 4
  /\ stdout[1].type = "status"
  /\ stdout[2].type = "pong"
  /\ stdout[3].type = "result"
  /\ stdout[4].type = "fatal"

(* -------------------------------- C14 ---------------------------------- *)

\* attempts to load the model
Loads == { k \in 1..Len(collab) : collab[k].ev \in {"load_ok", "load_raises"} }

\* C14: the model is loaded at most once, it is loaded whenever the loop is
\* running, and once loaded the model handle and the device name are left as
\* they are by every step, whatever the request and whether it fails or not.
C14_ServiceFixed ==
  /\ [](mode = "server" =>
          /\ Cardinality(Loads) <= 1
          /\ (pc \in {"announce", "read", "handle", "transcribing"} =>
                /\ Cardinality(Loads) = 1
                /\ service.model = "loaded"
                /\ service.device \in {"cuda", "cpu"})
          /\ (nread > 0 => service.device = stdout[1].device))
  /\ [][service.model = "loaded" => service' = service]_vars

\* a malformed line, a raising model call and an unknown command later, the
\* service is the one announced at startup
C14_Witness ==
  /\ nread = 3
  /\ pc = "read"
  /\ stdin[1].kind = "garbage"
  /\ \E k \in 1..Len(collab) : collab[k].at = 2 /\ collab[k].ev = "transcribe_raises"
  /\ IsRequest(stdin[3], "stop")
  /\ service = [device |-> "cuda", model |-> "loaded"]
  /\ stdout[1].device = "cuda"

(* -------------------------------- C15 ---------------------------------- *)

\* C15: a "result" line was printed while a transcribe request for an existing
\* file was handled and after the model call for that very line returned; it
\* has the id and the file_path of that request, and its text is "" when the
\* model returned an empty list (the first element otherwise).
C15_ResultBelongsToRequest ==
  \A j \in 1..Len(stdout) :
    stdout[j].type = "result" =>
      LET i == cause[j] IN
      /\ i \in 1..nread
      /\ IsRequest(stdin[i], "transcribe")
      /\ os_path_exists(req_get(stdin[i], "file_path")) = "true"
      /\ stdout[j].id = req_get(stdin[i], "id")
      /\ stdout[j].file_path = req_get(stdin[i], "file_path")
      /\ i \in Range(calls)
      /\ \E k \in 1..Len(collab) :
           /\ collab[k].at = i
           /\ collab[k].ev = "transcribe_returns"
           /\ stdout[j].text = (IF collab[k].ret = <<>> THEN "" ELSE collab[k].ret[1])
      /\ ~ \E k \in 1..Len(collab) : collab[k].at = i /\ collab[k].ev = "transcribe_raises"

\* two results in a row with different ids, the first from an empty list
C15_Witness ==
  /\ Len(stdout) >= 3
  /\ stdout[2].type = "result"
  /\ stdout[2].id = "id1"
  /\ stdout[2].text = ""
  /\ stdout[3].type = "result"
  /\ stdout[3].id = "id2"
  /\ stdout[3].text = "hello"

(* -------------------------------- C16 ---------------------------------- *)

\* a blank line, or an object whose command is absent or not one of
\* transcribe / ping / exit
IsIgnored(l) ==
  \/ l.kind = "blank"
  \/ (l.kind = "object" /\ l.command \notin {"transcribe", "ping", "exit"})

\* C16: an ignored line leaves no trace: nothing is printed for it, the model
\* is not called for it, and the loop goes on to the next line.
C16_IgnoredLinesSilent ==
  \A i \in 1..nread :
    (IsIgnored(stdin[i]) /\ Finished(i))
      => /\ RespsFor(i) = {}
         /\ i \notin Range(calls)
         /\ \A k \in 1..Len(collab) : collab[k].at # i
         /\ LoopGoesOn(i)

\* a blank line and an object without a command, then a ping that is answered
\* second on stdout, right after "ready"
C16_Witness ==
  /\ nread = 3
  /\ pc = "read"
  /\ stdin[1].kind = "blank"
  /\ stdin[2].kind = "object"
  /\ stdin[2].command = Absent
  /\ cause = <<0, 3>>
  /\ stdout[2].type = "pong"

(* -------------------------------- C17 ---------------------------------- *)

FatalLines == { j \in 1..Len(stdout) : stdout[j].type = "fatal" }

\* C17: a "fatal" line is the last line of the run: there is at most one, the
\* run is over when it is there, and afterwards nothing is read or printed.
C17_FatalIsTerminal ==
  /\ [](mode = "server" =>
          /\ FatalLines \subseteq {Len(stdout)}
          /\ (FatalLines # {} => pc = "done"))
  /\ [][FatalLines # {} => (nread' = nread /\ stdout' = stdout)]_vars

\* the read of the second of three lines raised: fatal is printed after the
\* answer to the first line and the third line is never taken
C17_Witness ==
  /\ Len(stdin) = 3
  /\ nread = 2
  /\ Len(stdout) = 3
  /\ FatalLines = {3}
  /\ pc = "done"

(* -------------------------------- C18 ---------------------------------- *)

\* positions of the exit commands in the input
ExitAt == { i \in 1..Len(stdin) : IsRequest(stdin[i], "exit") }

\* positions of the lines whose read raises
UndecodableAt == { i \in 1..Len(stdin) : stdin[i].kind = "undecodable" }

Min(S) == CHOOSE m \in S : \A n \in S : m <= n

\* C18 as stated: a server run that got as far as "ready" ends having taken
\* every line up to the first exit command, or every line of the input when
\* there is none, and each of these lines was handled by the loop body.
C18_StopsAtExitOrEof ==
  (mode = "server" /\ pc = "done" /\ ReadyLines # {}) =>
    /\ nread = (IF ExitAt # {} THEN Min(ExitAt) ELSE Len(stdin))
    /\ \A i \in 1..nread : i \notin UndecodableAt

\* where a run over this input stops: 0 when startup fails, else the first
\* exit command or the first line whose read raises, else the end of input
StopIndex ==
  IF ~Happened("load_ok") THEN 0
  ELSE Min(ExitAt \cup UndecodableAt \cup {Len(stdin)})

\* C18 (amended): every run terminates.  A server run whose startup fails
\* reads nothing; otherwise it handles each line up to the first exit command,
\* the first line whose read raises (reported as "fatal"), or the end of
\* input, with every line before that point answered as C6 says; end of input
\* itself prints nothing.
C18_Terminates ==
  /\ <>(pc = "done")
  /\ []((mode = "server" /\ pc = "done") =>
          /\ nread = StopIndex
          /\ \A i \in 1..nread :
               Cardinality(RespsFor(i)) = (IF IsSilent(stdin[i]) THEN 0 ELSE 1)
          /\ \A j \in 1..Len(cause) : cause[j] <= StopIndex)
  /\ [][(pc = "read" /\ nread = Len(stdin)) => (pc' = "done" /\ stdout' = stdout)]_vars

\* three lines without an exit command were answered and the run ended at
\* end of input
C18_Witness ==
  /\ mode = "server"
  /\ pc = "done"
  /\ ended = "eof"
  /\ nread = 3
  /\ ExitAt = {}
  /\ cause = <<0, 1, 2, 3>>

====
